---- MODULE Spec2Model ----
(***************************************************************************)
(* A model of textpress.database (manager extension, database managers,     *)
(* scoped session, mapper wrapper) and of textpress.tpxa (the TPXA export   *)
(* writer).                                                                 *)
(***************************************************************************)
EXTENDS Integers, Sequences, FiniteSets, TLC

VARIABLES
    \* ---- model classes and their database managers (database.py) ----
    classDict,      \* class -> (attribute name -> value): the class's own __dict__
    tpManagers,     \* class -> its own _tp_managers attribute (Unset or a list)
    mgrModel,       \* manager id -> DatabaseManager.model (None or a class)
    lastInstr,      \* what the last instrument_class call did
    \* ---- the scoped session and instance construction (database.py) ----
    registry,       \* identity -> the session of that scope (0: none yet)
    sessObjs,       \* session id -> the instances attached to that session
    nInst,          \* instances constructed so far (their ids are 1..nInst)
    ctor,           \* the construction in progress, if any
    epoch,          \* identity -> number of sessions cleanup_session removed
    uses,           \* history: which session each scoped operation used
    lastSess,       \* what the last session operation did
    \* ---- db.mapper (database.py) ----
    callerList,     \* a list of extensions the application keeps and passes
    nManagerExt,    \* ManagerExtension instances created so far
    lastMapper,     \* what the last db.mapper call handed to orm.mapper
    \* ---- the TPXA export (tpxa.py) ----
    dbUsers,        \* the rows User.objects.all() returns, in its order
    dbPosts,        \* the rows of the post query, newest first
    participants,   \* Writer.participants: the kind of each one
    pc,             \* where the generator Writer._generate stands
    err,            \* the exception that ended the generator, if any
    postIter,       \* the iterator `posts`: the posts not yet dumped
    userIdx,        \* number of users registered so far
    dependencies,   \* Writer._dependencies: id -> node
    users,          \* Writer.users: user_id -> node
    depLeft,        \* ids the loop over _dependencies has not reached yet
    hooks,          \* per participant, how often each hook was called
    depLog,         \* history: number of new_dependency calls, the last node returned
    out             \* the chunks yielded so far

classVars == <<classDict, tpManagers, mgrModel, lastInstr>>

sessVars == <<registry, sessObjs, nInst, ctor, epoch, uses, lastSess>>

mapVars == <<callerList, nManagerExt, lastMapper>>

dbVars == <<dbUsers, dbPosts, participants>>

genVars == <<pc, err, postIter, userIdx, dependencies, users, depLeft, hooks, depLog, out>>

expVars == <<dbVars, genVars>>

vars == <<classVars, sessVars, mapVars, expVars>>

\* what the operations of one part leave alone
notClasses == <<sessVars, mapVars, expVars>>
notSessions == <<classVars, mapVars, expVars>>
notMapper == <<classVars, sessVars, expVars>>
notExport == <<classVars, sessVars, mapVars>>

----------------------------------------------------------------------------
\* Bounds

\* DatabaseManager instances the application code creates by hand
NUserManagers == 2

\* sessions that may exist over a run (one made by hand, the rest scoped)
MaxSessions == 4

\* instances constructed in a run
MaxInstances == 2

\* db.mapper calls in a run
MaxMapperCalls == 3

\* length of the extension list the application builds
MaxExtensions == 2

\* rows of the users table
MaxUsers == 2

\* rows of the posts table
MaxPosts == 3

\* participants registered for the export
MaxParticipants == 1

\* new_dependency calls on one writer
MaxDependencies == 16

----------------------------------------------------------------------------
\* Helpers

None == "None"

NoCall == [op |-> "none", result |-> "none"]

Range(s) == {s[i] : i \in 1..Len(s)}

\* all the orders in which the elements of S can be listed
Perms(S) ==
    {s \in [1..Cardinality(S) -> S] : \A i, j \in 1..Cardinality(S) : s[i] = s[j] => i = j}

----------------------------------------------------------------------------
\* Model classes: Sub is a subclass of Base.

Classes == {"Base", "Sub"}

Parent(c) == IF c = "Sub" THEN "Base" ELSE None

\* the classes attribute lookup walks through (the class, then its bases)
Mro(c) == IF Parent(c) = None THEN {c} ELSE {c, Parent(c)}

AttrNames == {"objects", "mgr"}

NoAttr == [kind |-> "absent", id |-> 0]
Plain == [kind |-> "plain", id |-> 0]
Manager(m) == [kind |-> "manager", id |-> m]

UserManagers == 1..NUserManagers

AttrValues == {NoAttr, Plain} \cup {Manager(m) : m \in UserManagers}

\* the class bodies considered: each attribute holds nothing, a value that
\* is no manager, or a manager
ClassBodies == [AttrNames -> AttrValues]

Unset == [set |-> FALSE, list |-> <<>>]

\* class_._tp_managers = managers
TpList(l) == [set |-> TRUE, list |-> l]

\* isinstance(value, DatabaseManager)
IsManager(v) == v.kind = "manager"

\* hasattr(class_, name): the class's own __dict__ or that of a base class
HasAttr(dict, c, a) == \E k \in Mro(c) : dict[k][a] # NoAttr

\* getattr(class_, name): own __dict__ first, then the base class
GetAttr(dict, c, a) ==
    IF dict[c][a] # NoAttr THEN dict[c][a]
    ELSE IF Parent(c) # None THEN dict[Parent(c)][a]
    ELSE NoAttr

\* DatabaseManager.bind with the check for an earlier binding left out
bind_unguarded(model, m, c) == [ok |-> TRUE, model |-> [model EXCEPT ![m] = c]]

\* DatabaseManager.bind: raises RuntimeError when the manager is already bound
bind(model, m, c) ==
    IF model[m] # None
    THEN [ok |-> FALSE, model |-> model]
    ELSE [ok |-> TRUE, model |-> [model EXCEPT ![m] = c]]

\* for manager in managers: manager.bind(class_)  -- stops at the first raise
RECURSIVE BindAll(_, _, _)
BindAll(model, ms, c) ==
    IF ms = <<>> THEN [ok |-> TRUE, model |-> model]
    ELSE LET r == bind(model, Head(ms), c)
         IN IF ~r.ok THEN r ELSE BindAll(r.model, Tail(ms), c)

\* the managers found by the scan of class_.__dict__, in the order `order`
\* lists the attributes that hold one
ScanManagers(dict, c, order) == [i \in 1..Len(order) |-> dict[c][order[i]].id]

OwnManagerAttrs(dict, c) == {a \in AttrNames : IsManager(dict[c][a])}

\* if hasattr(class_, 'objects'): raise RuntimeError
Collides(dict, c) == HasAttr(dict, c, "objects")

\* instrument_class that never creates the default manager
instrument_class_nodefault(c) ==
    \E order \in Perms(OwnManagerAttrs(classDict, c)) :
        LET found == ScanManagers(classDict, c, order)
            r == BindAll(mgrModel, found, c)
        IN /\ tpManagers' = [tpManagers EXCEPT ![c] = TpList(found)]
           /\ mgrModel' = r.model
           /\ classDict' = classDict
           /\ lastInstr' = [op |-> "instrument_class", cls |-> c,
                            result |-> IF r.ok THEN "ok" ELSE "already_bound",
                            before |-> classDict[c], tpBefore |-> tpManagers[c],
                            modelBefore |-> mgrModel, nBefore |-> Len(mgrModel),
                            visibleBefore |-> [a \in AttrNames |-> GetAttr(classDict, c, a)]]

\* ManagerExtension.instrument_class
instrument_class(c) ==
    \E order \in Perms(OwnManagerAttrs(classDict, c)) :
        LET found == ScanManagers(classDict, c, order)
            rec(res) == [op |-> "instrument_class", cls |-> c, result |-> res,
                         before |-> classDict[c], tpBefore |-> tpManagers[c],
                         modelBefore |-> mgrModel, nBefore |-> Len(mgrModel),
                         visibleBefore |-> [a \in AttrNames |-> GetAttr(classDict, c, a)]]
        IN IF found = <<>> /\ Collides(classDict, c)
           THEN \* RuntimeError before anything is assigned
                /\ lastInstr' = rec("collision")
                /\ UNCHANGED <<classDict, tpManagers, mgrModel>>
           ELSE LET mgr == Len(mgrModel) + 1
                    fresh == found = <<>>
                    managers == IF fresh THEN <<mgr>> ELSE found
                    models == IF fresh THEN Append(mgrModel, None) ELSE mgrModel
                    r == BindAll(models, managers, c)
                IN /\ classDict' = IF fresh
                                   THEN [classDict EXCEPT ![c]["objects"] = Manager(mgr)]
                                   ELSE classDict
                   /\ tpManagers' = [tpManagers EXCEPT ![c] = TpList(managers)]
                   /\ mgrModel' = r.model
                   /\ lastInstr' = rec(IF r.ok THEN "ok" ELSE "already_bound")

InstrumentClass == (\E c \in Classes : instrument_class(c)) /\ UNCHANGED notClasses

----------------------------------------------------------------------------
\* The scoped session (database.py 251-255, 289-290) and the construction
\* hooks of ManagerExtension.

\* local_manager.get_ident(): the identity of the running thread / request
Idents == {"t1", "t2"}

\* the session the application creates by hand and passes as _sa_session
ExplicitSession == 1

ControlKeys == {"_sa_session", "_tp_no_save", "_sa_entity_name"}

\* keyword arguments of a construction: the keys present, and the values of
\* _sa_session (0 is None) and _tp_no_save
KwargsSet ==
    {k \in [keys : SUBSET ControlKeys, sa_session : {0, ExplicitSession}, no_save : BOOLEAN] :
        /\ "_sa_session" \notin k.keys => k.sa_session = 0
        /\ "_tp_no_save" \notin k.keys => k.no_save = FALSE}

NoKwargs == [keys |-> {}, sa_session |-> 0, no_save |-> FALSE]

\* no construction in progress; `res` tells how the last one (of `x`) ended
Idle(res, x) == [phase |-> "idle", ident |-> "none", inst |-> x, kwargsIn |-> NoKwargs,
                 kwargs |-> NoKwargs, session |-> 0, result |-> res]

\* kwargs.pop(key, default): the value and the remaining keys
Pop(kw, key) == [kw EXCEPT !.keys = @ \ {key}]

\* session.registry(): the session of the scope `i`, created on first use
\* by orm.create_session
RegistryCall(reg, objs, i) ==
    IF reg[i] # 0
    THEN [sid |-> reg[i], reg |-> reg, objs |-> objs, created |-> FALSE]
    ELSE [sid |-> Len(objs) + 1,
          reg |-> [reg EXCEPT ![i] = Len(objs) + 1],
          objs |-> Append(objs, {}),
          created |-> TRUE]

\* whether a registry() call by `i` stays within the model's bound
CanAccess(i) == registry[i] # 0 \/ Len(sessObjs) < MaxSessions

\* orm.object_session(instance): the session the instance is attached to
ObjectSession(objs, x) ==
    IF \E s \in DOMAIN objs : x \in objs[s]
    THEN CHOOSE s \in DOMAIN objs : x \in objs[s]
    ELSE 0

Use(i, sid) == [ident |-> i, epoch |-> epoch[i], sid |-> sid]

\* ManagerExtension.init_instance (called before the model's __init__)
init_instance(i, kw) ==
    /\ ctor.phase = "idle"
    /\ nInst < MaxInstances
    /\ (kw.sa_session # 0 \/ CanAccess(i))
    /\ LET x == nInst + 1
           kw1 == Pop(kw, "_sa_session")
           given == kw.sa_session # 0
           r == IF given
                THEN [sid |-> kw.sa_session, reg |-> registry, objs |-> sessObjs,
                      created |-> FALSE]
                ELSE RegistryCall(registry, sessObjs, i)
           kw2 == Pop(kw1, "_tp_no_save")
           save == ~kw.no_save
           kw3 == IF save THEN Pop(kw2, "_sa_entity_name") ELSE kw2
       IN /\ nInst' = x
          /\ registry' = r.reg
          /\ sessObjs' = IF save THEN [r.objs EXCEPT ![r.sid] = @ \cup {x}] ELSE r.objs
          /\ uses' = IF given THEN uses ELSE uses \cup {Use(i, r.sid)}
          /\ ctor' = [phase |-> "init", ident |-> i, inst |-> x, kwargsIn |-> kw,
                      kwargs |-> kw3, session |-> r.sid, result |-> "none"]
          /\ lastSess' = [op |-> "init_instance", ident |-> i, sid |-> r.sid,
                          created |-> r.created, obj |-> IF save THEN {x} ELSE {},
                          regBefore |-> registry, objsBefore |-> sessObjs]
          /\ UNCHANGED epoch

InitInstance == (\E i \in Idents, kw \in KwargsSet : init_instance(i, kw)) /\ UNCHANGED notSessions

\* the model's own __init__ returns normally
InitReturns ==
    /\ ctor.phase = "init"
    /\ ctor' = Idle("constructed", ctor.inst)
    /\ lastSess' = [op |-> "init_returns", result |-> "ok"]
    /\ UNCHANGED <<registry, sessObjs, nInst, epoch, uses>>
    /\ UNCHANGED notSessions

\* ManagerExtension.init_failed (called when the model's __init__ raises)
InitFailed ==
    /\ ctor.phase = "init"
    /\ LET s == ObjectSession(sessObjs, ctor.inst)
       IN IF s = 0
          THEN \* None.expunge: AttributeError
               /\ ctor' = Idle("AttributeError", ctor.inst)
               /\ UNCHANGED sessObjs
          ELSE /\ sessObjs' = [sessObjs EXCEPT ![s] = @ \ {ctor.inst}]
               /\ ctor' = Idle("expunged", ctor.inst)
    /\ lastSess' = [op |-> "init_failed", result |-> ctor'.result]
    /\ UNCHANGED <<registry, nInst, epoch, uses>>
    /\ UNCHANGED notSessions

\* a thread is busy while its construction is in progress
Free(i) == ctor.ident # i

\* db.save(obj): session.save on the scoped session
Save ==
    \E i \in Idents, x \in 1..nInst :
        /\ Free(i)
        /\ CanAccess(i)
        /\ LET r == RegistryCall(registry, sessObjs, i)
               other == ObjectSession(sessObjs, x)
               ok == other \in {0, r.sid}
           IN /\ registry' = r.reg
              /\ sessObjs' = IF ok THEN [r.objs EXCEPT ![r.sid] = @ \cup {x}] ELSE r.objs
              /\ uses' = uses \cup {Use(i, r.sid)}
              /\ lastSess' = [op |-> IF ok THEN "save" ELSE "save_refused",
                              ident |-> i, sid |-> r.sid, created |-> r.created,
                              obj |-> IF ok THEN {x} ELSE {},
                              regBefore |-> registry, objsBefore |-> sessObjs]
        /\ UNCHANGED <<nInst, ctor, epoch>>
        /\ UNCHANGED notSessions

\* DatabaseManager.query: session.registry().query(self.model)
Query ==
    \E i \in Idents :
        /\ Free(i)
        /\ CanAccess(i)
        /\ LET r == RegistryCall(registry, sessObjs, i)
           IN /\ registry' = r.reg
              /\ sessObjs' = r.objs
              /\ uses' = uses \cup {Use(i, r.sid)}
              /\ lastSess' = [op |-> "query", ident |-> i, sid |-> r.sid,
                              created |-> r.created, obj |-> {},
                              regBefore |-> registry, objsBefore |-> sessObjs]
        /\ UNCHANGED <<nInst, ctor, epoch>>
        /\ UNCHANGED notSessions

\* cleanup_session that closes the session but keeps it in the registry
cleanup_session_keep(i) ==
    /\ Free(i)
    /\ registry' = registry
    /\ sessObjs' = IF registry[i] # 0 THEN [sessObjs EXCEPT ![registry[i]] = {}] ELSE sessObjs
    /\ epoch' = IF registry[i] # 0 THEN [epoch EXCEPT ![i] = @ + 1] ELSE epoch
    /\ lastSess' = [op |-> "cleanup", ident |-> i, sid |-> registry[i], created |-> FALSE,
                    obj |-> {}, regBefore |-> registry, objsBefore |-> sessObjs]
    /\ UNCHANGED <<nInst, ctor, uses>>

\* cleanup_session = session.remove: close the scope's session, if there is
\* one, and drop it from the registry
cleanup_session(i) ==
    /\ Free(i)
    /\ registry' = [registry EXCEPT ![i] = 0]
    /\ sessObjs' = IF registry[i] # 0 THEN [sessObjs EXCEPT ![registry[i]] = {}] ELSE sessObjs
    /\ epoch' = IF registry[i] # 0 THEN [epoch EXCEPT ![i] = @ + 1] ELSE epoch
    /\ lastSess' = [op |-> "cleanup", ident |-> i, sid |-> registry[i], created |-> FALSE,
                    obj |-> {}, regBefore |-> registry, objsBefore |-> sessObjs]
    /\ UNCHANGED <<nInst, ctor, uses>>

CleanupSession == (\E i \in Idents : cleanup_session(i)) /\ UNCHANGED notSessions

SessionsStart ==
    /\ registry = [i \in Idents |-> 0]
    /\ sessObjs = <<{}>>
    /\ nInst = 0
    /\ ctor = Idle("none", 0)
    /\ epoch = [i \in Idents |-> 0]
    /\ uses = {}
    /\ lastSess = NoCall

----------------------------------------------------------------------------
\* db.mapper (database.py 138-144)

\* the extensions the application writes itself
UserExtensions == {[kind |-> "user", id |-> 1], [kind |-> "user", id |-> 2]}

\* ManagerExtension(): a new instance each time
ManagerExtension(n) == [kind |-> "ManagerExtension", id |-> n]

\* lists of at most n elements of S
SeqsUpTo(S, n) == UNION {[1..k -> S] : k \in 0..n}

\* the other positional and keyword arguments of a call (class, table, ...)
OtherArgs == {"Post, posts", "User, users, properties"}

\* the extension= keyword of a call: left out, a single extension, or a list.
\* `ref` tells whether the list is the one the application keeps
ExtensionArgs ==
    {[form |-> "absent", ext |-> <<>>, ref |-> FALSE]}
    \cup {[form |-> "single", ext |-> <<e>>, ref |-> FALSE] : e \in UserExtensions}
    \cup {[form |-> "list", ext |-> <<>>, ref |-> TRUE]}

\* to_list(kwargs.get('extension', [])): a list is returned as it is, a
\* single extension is wrapped, a missing keyword gives the empty list
to_list(arg, kept) ==
    IF arg.form = "list" THEN kept
    ELSE IF arg.form = "single" THEN arg.ext
    ELSE <<>>

\* mapper that hands over the manager extension alone
extension_list_replaced(arg, kept, n) == <<ManagerExtension(n)>>

\* extensions.append(ManagerExtension())
extension_list(arg, kept, n) == Append(to_list(arg, kept), ManagerExtension(n))

mapper(args, arg) ==
    /\ nManagerExt < MaxMapperCalls
    /\ LET n == nManagerExt + 1
           extensions == extension_list(arg, callerList, n)
       IN /\ nManagerExt' = n
          \* a list passed by the caller is the very list that is appended to
          /\ callerList' = IF arg.ref THEN extensions ELSE callerList
          /\ lastMapper' = [op |-> "mapper", result |-> "ok", args |-> args, arg |-> arg,
                            supplied |-> to_list(arg, callerList),
                            created |-> nManagerExt,
                            handedArgs |-> args, handedExtension |-> extensions]

Mapper == (\E args \in OtherArgs, arg \in ExtensionArgs : mapper(args, arg)) /\ UNCHANGED notMapper

MapperStart ==
    /\ callerList = <<>>
    /\ nManagerExt = 0
    /\ lastMapper = NoCall

----------------------------------------------------------------------------
\* The TPXA export writer (tpxa.py 128-269)

UserIds == 1..MaxUsers

\* post.author.user_id of a post; 0 stands for a post without author
\* (posts.author_id is nullable)
Authors == 0..MaxUsers

ParticipantKinds == {"base", "plugin"}

HexDigits == <<"0", "1", "2", "3", "4", "5", "6", "7",
               "8", "9", "a", "b", "c", "d", "e", "f">>

\* '%x' % n
RECURSIVE Hex(_)
Hex(n) ==
    IF n < 16 THEN <<HexDigits[n + 1]>>
    ELSE Hex(n \div 16) \o <<HexDigits[(n % 16) + 1]>>

Chunk(type, post, dep, user) == [type |-> type, post |-> post, dep |-> dep, user |-> user]

\* new_dependency that numbers the nodes from the table's length
NewDependencyId_fromLength(deps) == Hex(Cardinality(DOMAIN deps))

\* new_dependency: the id of the next node
NewDependencyId(deps) == Hex(Cardinality(DOMAIN deps) + 1)

NoNode == [dep |-> <<>>, tag |-> "none", user |-> 0]

\* the tags a dependency node is made with: tp.user by _register_user, and
\* whatever a participant asks for
DependencyTags == {"user", "extra"}

\* Writer.new_dependency: the node returned and the table after the call
new_dependency(deps, tag) ==
    LET id == NewDependencyId(deps)
        node == [dep |-> id, tag |-> tag, user |-> 0]
    IN [node |-> node, deps |-> (id :> node) @@ deps]

\* _register_user: the node made by new_dependency(self.tp.user) with the
\* user's data added
UserNode(deps, uid) == [dep |-> NewDependencyId(deps), tag |-> "user", user |-> uid]

\* the author reference written as the user's id instead of the node's
AuthorDependency_byUserId(usersMap, author) == Hex(author)

\* self.users[post.author.user_id].attrib[self.tp.dependency]
AuthorDependency(usersMap, author) == usersMap[author].dep

\* the first post pulled for the feed date and not put back
ChainFirst_lost(first, rest) == rest

\* chain((first_post,), posts)
ChainFirst(first, rest) == <<first>> \o rest

\* the dependency block written whether or not there are dependencies
HasDependencies_always(deps) == TRUE

\* if self._dependencies:
HasDependencies(deps) == DOMAIN deps # {}

\* where the generator goes once the users are registered
AfterUsers(iter) == IF iter = <<>> THEN "deps" ELSE "posts"

\* _generate up to its first yield: the preamble
GenPreamble ==
    /\ pc = "start"
    /\ LET it == dbPosts
       IN /\ postIter' = IF it = <<>> THEN <<>> ELSE ChainFirst(Head(it), Tail(it))
          /\ out' = Append(out, Chunk("preamble", IF it = <<>> THEN 0 ELSE Head(it).id, <<>>, 0))
    /\ pc' = "setup"
    /\ UNCHANGED <<err, userIdx, dependencies, users, depLeft, hooks>>
    /\ UNCHANGED <<dbVars, notExport, depLog>>

\* the participants before the first one that has no setup method
SetupReached(ps) ==
    {k \in 1..Len(ps) : \A j \in 1..(k - 1) : ps[j] # "base"}

\* for participant in self.participants: participant.setup()
GenSetup ==
    /\ pc = "setup"
    /\ LET fails == \E k \in 1..Len(participants) : participants[k] = "base"
       IN /\ hooks' = [k \in 1..Len(participants) |->
                        IF k \in SetupReached(participants) /\ participants[k] # "base"
                        THEN [hooks[k] EXCEPT !.setup = @ + 1]
                        ELSE hooks[k]]
          /\ pc' = IF fails THEN "error"
                   ELSE IF dbUsers = <<>> THEN AfterUsers(postIter) ELSE "users"
          /\ err' = IF fails THEN "AttributeError" ELSE err
    /\ UNCHANGED <<postIter, userIdx, dependencies, users, depLeft, out>>
    /\ UNCHANGED <<dbVars, notExport, depLog>>

\* one round of: for user in User.objects.all(): self._register_user(user)
GenRegisterUser ==
    /\ pc = "users"
    /\ LET uid == dbUsers[userIdx + 1]
           rv == UserNode(dependencies, uid)
       IN /\ dependencies' = (rv.dep :> rv) @@ dependencies
          /\ hooks' = [k \in 1..Len(participants) |->
                        [hooks[k] EXCEPT !.process_user = @ + 1]]
          /\ users' = (uid :> rv) @@ users
          /\ userIdx' = userIdx + 1
          /\ pc' = IF userIdx + 1 = Len(dbUsers) THEN AfterUsers(postIter) ELSE "users"
          /\ depLog' = [calls |-> depLog.calls + 1, node |-> [rv EXCEPT !.user = 0]]
    /\ UNCHANGED <<err, postIter, depLeft, out>>
    /\ UNCHANGED <<dbVars, notExport>>

\* _dump_post that leaves out a post it cannot dump and goes on
dump_post_skipping(post) ==
    IF post.author = 0 \/ post.author \notin DOMAIN users
    THEN /\ UNCHANGED <<out, hooks, err>>
         /\ pc' = IF Tail(postIter) = <<>> THEN "deps" ELSE "posts"
    ELSE /\ out' = Append(out, Chunk("entry", post.id,
                                     AuthorDependency(users, post.author), post.author))
         /\ hooks' = [k \in 1..Len(participants) |->
                        [hooks[k] EXCEPT !.process_post = @ + 1]]
         /\ pc' = IF Tail(postIter) = <<>> THEN "deps" ELSE "posts"
         /\ err' = err

\* yield dump_node(self._dump_post(post)) for the post the iterator gives
dump_post(post) ==
    IF post.author = 0
    THEN \* post.author is None
         /\ pc' = "error"
         /\ err' = "AttributeError"
         /\ UNCHANGED <<out, hooks>>
    ELSE IF post.author \notin DOMAIN users
    THEN /\ pc' = "error"
         /\ err' = "KeyError"
         /\ UNCHANGED <<out, hooks>>
    ELSE /\ out' = Append(out, Chunk("entry", post.id,
                                     AuthorDependency(users, post.author), post.author))
         /\ hooks' = [k \in 1..Len(participants) |->
                        [hooks[k] EXCEPT !.process_post = @ + 1]]
         /\ pc' = IF Tail(postIter) = <<>> THEN "deps" ELSE "posts"
         /\ err' = err

\* one round of: for post in posts
GenDumpPost ==
    /\ pc = "posts"
    /\ dump_post(Head(postIter))
    /\ postIter' = Tail(postIter)
    /\ UNCHANGED <<userIdx, dependencies, users, depLeft>>
    /\ UNCHANGED <<dbVars, notExport, depLog>>

\* yield '<tp:dependencies>'
GenDepsOpen ==
    /\ pc = "deps"
    /\ HasDependencies(dependencies)
    /\ out' = Append(out, Chunk("open", 0, <<>>, 0))
    /\ depLeft' = DOMAIN dependencies
    /\ pc' = IF DOMAIN dependencies = {} THEN "depsclose" ELSE "depnodes"
    /\ UNCHANGED <<err, postIter, userIdx, dependencies, users, hooks>>
    /\ UNCHANGED <<dbVars, notExport, depLog>>

\* one round of: for node in self._dependencies.itervalues(), in the order
\* the dictionary happens to give
GenDepNode ==
    /\ pc = "depnodes"
    /\ \E k \in depLeft :
          /\ out' = Append(out, Chunk("node", 0, dependencies[k].dep, dependencies[k].user))
          /\ depLeft' = depLeft \ {k}
          /\ pc' = IF depLeft = {k} THEN "depsclose" ELSE "depnodes"
    /\ UNCHANGED <<err, postIter, userIdx, dependencies, users, hooks>>
    /\ UNCHANGED <<dbVars, notExport, depLog>>

\* yield '</tp:dependencies>'
GenDepsClose ==
    /\ pc = "depsclose"
    /\ out' = Append(out, Chunk("close", 0, <<>>, 0))
    /\ pc' = "epilog"
    /\ UNCHANGED <<err, postIter, userIdx, dependencies, users, depLeft, hooks>>
    /\ UNCHANGED <<dbVars, notExport, depLog>>

\* yield XML_EPILOG, and the generator is exhausted
GenEpilog ==
    /\ \/ pc = "epilog"
       \/ pc = "deps" /\ ~HasDependencies(dependencies)
    /\ out' = Append(out, Chunk("epilog", 0, <<>>, 0))
    /\ pc' = "done"
    /\ UNCHANGED <<err, postIter, userIdx, dependencies, users, depLeft, hooks>>
    /\ UNCHANGED <<dbVars, notExport, depLog>>

\* a call of writer.new_dependency(tag) on a writer that is not exporting
NewDependency ==
    /\ pc = "start"
    /\ depLog.calls < MaxDependencies
    /\ \E tag \in DependencyTags :
          LET r == new_dependency(dependencies, tag)
          IN /\ dependencies' = r.deps
             /\ depLog' = [calls |-> depLog.calls + 1, node |-> r.node]
    /\ UNCHANGED <<pc, err, postIter, userIdx, users, depLeft, hooks, out>>
    /\ UNCHANGED <<dbVars, notExport>>

\* Writer.__init__
WriterStart ==
    /\ pc = "start"
    /\ err = "none"
    /\ postIter = <<>>
    /\ userIdx = 0
    /\ dependencies = <<>>
    /\ users = <<>>
    /\ depLeft = {}
    /\ hooks = [k \in 1..Len(participants) |-> [before_dump |-> 0, setup |-> 0,
                 process_user |-> 0, process_post |-> 0]]
    /\ depLog = [calls |-> 0, node |-> NoNode]
    /\ out = <<>>

\* no export running: an empty blog
ExportIdle ==
    /\ dbUsers = <<>>
    /\ dbPosts = <<>>
    /\ participants = <<>>
    /\ WriterStart

\* the post rows: post k of the query has id k and any author
PostRows == UNION {[1..n -> Authors] : n \in 0..MaxPosts}

ClassesStart ==
    /\ tpManagers = [c \in Classes |-> Unset]
    /\ mgrModel = [m \in UserManagers |-> None]
    /\ lastInstr = NoCall

\* before any mapper call: classes as the application wrote them
InitClasses ==
    /\ classDict \in [Classes -> ClassBodies]
    /\ ClassesStart
    /\ SessionsStart
    /\ MapperStart
    /\ ExportIdle

NextClasses == InstrumentClass

SpecClasses == InitClasses /\ [][NextClasses]_vars

\* the application after its classes are mapped: sessions and constructions
InitSessions ==
    /\ classDict = [c \in Classes |-> [a \in AttrNames |-> NoAttr]]
    /\ ClassesStart
    /\ SessionsStart
    /\ MapperStart
    /\ ExportIdle

NextSessions ==
    \/ InitInstance
    \/ InitReturns
    \/ InitFailed
    \/ Save
    \/ Query
    \/ CleanupSession

SpecSessions == InitSessions /\ [][NextSessions]_vars

\* the module that defines the models: db.mapper calls
InitMapper ==
    /\ classDict = [c \in Classes |-> [a \in AttrNames |-> NoAttr]]
    /\ ClassesStart
    /\ SessionsStart
    /\ callerList \in SeqsUpTo(UserExtensions, MaxExtensions)
    /\ nManagerExt = 0
    /\ lastMapper = NoCall
    /\ ExportIdle

NextMapper == Mapper

SpecMapper == InitMapper /\ [][NextMapper]_vars

\* export(app): a writer over any content of the blog's tables
InitExport ==
    /\ classDict = [c \in Classes |-> [a \in AttrNames |-> NoAttr]]
    /\ ClassesStart
    /\ SessionsStart
    /\ MapperStart
    /\ dbUsers \in UNION {Perms(S) : S \in SUBSET UserIds}
    /\ \E rows \in PostRows : dbPosts = [k \in 1..Len(rows) |-> [id |-> k, author |-> rows[k]]]
    /\ participants \in SeqsUpTo(ParticipantKinds, MaxParticipants)
    /\ WriterStart

NextExport ==
    \/ GenPreamble
    \/ GenSetup
    \/ GenRegisterUser
    \/ GenDumpPost
    \/ GenDepsOpen
    \/ GenDepNode
    \/ GenDepsClose
    \/ GenEpilog

SpecExport == InitExport /\ [][NextExport]_vars

\* a writer on which new_dependency is called again and again
InitDependencies ==
    /\ classDict = [c \in Classes |-> [a \in AttrNames |-> NoAttr]]
    /\ ClassesStart
    /\ SessionsStart
    /\ MapperStart
    /\ ExportIdle

NextDependencies == NewDependency

SpecDependencies == InitDependencies /\ [][NextDependencies]_vars

----------------------------------------------------------------------------
\* Claims about instrument_class and bind, checked under SpecClasses

InstrCalled == lastInstr.op = "instrument_class"

\* the DatabaseManager instances in the class's own __dict__ before the call
OwnBefore == {lastInstr.before[a].id : a \in {x \in AttrNames : IsManager(lastInstr.before[x])}}

\* C1: after instrument_class returns normally the class has at least one
\* manager: its own managers, all bound to it, and no default one; or, when
\* it had none, a new default manager stored as 'objects', bound to the
\* class, and the only element of _tp_managers.
C1_InstrumentPostcondition ==
    (InstrCalled /\ lastInstr.result = "ok") =>
        LET c == lastInstr.cls
            tp == tpManagers[c].list
        IN /\ tpManagers[c].set
           /\ Len(tp) >= 1
           /\ IF OwnBefore # {}
              THEN /\ Range(tp) = OwnBefore
                   /\ Len(tp) = Cardinality(OwnBefore)
                   /\ \A m \in OwnBefore : mgrModel[m] = c
                   /\ classDict[c] = lastInstr.before
                   /\ Len(mgrModel) = lastInstr.nBefore
              ELSE /\ IsManager(classDict[c]["objects"])
                   /\ classDict[c]["objects"].id > lastInstr.nBefore
                   /\ Len(mgrModel) = lastInstr.nBefore + 1
                   /\ mgrModel[classDict[c]["objects"].id] = c
                   /\ tp = <<classDict[c]["objects"].id>>
                   /\ \A a \in AttrNames \ {"objects"} : classDict[c][a] = lastInstr.before[a]

\* C1 witness: a class with two managers of its own was instrumented after
\* another class got the default manager
C1_Witness ==
    /\ InstrCalled /\ lastInstr.result = "ok"
    /\ Cardinality(OwnBefore) = 2
    /\ \E c \in Classes \ {lastInstr.cls} :
          /\ tpManagers[c].set
          /\ Len(tpManagers[c].list) = 1
          /\ tpManagers[c].list[1] > NUserManagers
          /\ classDict[c]["objects"] = Manager(tpManagers[c].list[1])

\* C2 (as claimed): the collision RuntimeError is raised exactly when no
\* attribute of the class (its own or one reachable through a base class) is
\* a DatabaseManager and 'objects' is in use; the class is then unchanged.
C2_CollisionExactly ==
    InstrCalled =>
        /\ (lastInstr.result = "collision") <=>
              /\ \A a \in AttrNames : ~IsManager(lastInstr.visibleBefore[a])
              /\ lastInstr.visibleBefore["objects"] # NoAttr
        /\ lastInstr.result = "collision" =>
              /\ classDict[lastInstr.cls] = lastInstr.before
              /\ tpManagers[lastInstr.cls] = lastInstr.tpBefore
              /\ mgrModel = lastInstr.modelBefore

\* C10: a manager's model, once set, never changes, and a call binds only
\* managers that were unbound before it.
C10_BoundOnce ==
    [][ /\ \A m \in DOMAIN mgrModel : mgrModel[m] # None => mgrModel'[m] = mgrModel[m]
        /\ (lastInstr'.op = "instrument_class" /\ lastInstr'.result = "ok") =>
              \A m \in Range(tpManagers'[lastInstr'.cls].list) :
                  m \in DOMAIN mgrModel => mgrModel[m] = None
      ]_vars

\* C10 witness: a manager bound to one class was found on another class; the
\* call raised and the manager kept its first model
C10_Witness ==
    /\ InstrCalled /\ lastInstr.result = "already_bound"
    /\ \E m \in DOMAIN lastInstr.modelBefore :
          /\ m \in OwnBefore
          /\ lastInstr.modelBefore[m] \notin {None, lastInstr.cls}
          /\ mgrModel[m] = lastInstr.modelBefore[m]

----------------------------------------------------------------------------
\* Claims about construction and the scoped session, checked under
\* SpecSessions

InInit == ctor.phase = "init"

\* the sessions the instance under construction is attached to
AttachedTo(x) == {sid \in DOMAIN sessObjs : x \in sessObjs[sid]}

\* C3 (as claimed): after init_instance the instance is in a session exactly
\* when _tp_no_save is absent or false, that session is the one passed as
\* _sa_session or else the scoped one, and no control keyword is left in
\* kwargs whether or not the instance was saved.
C3_InitInstanceContract ==
    InInit =>
        LET kw == ctor.kwargsIn
            target == IF kw.sa_session # 0 THEN kw.sa_session ELSE registry[ctor.ident]
        IN /\ (AttachedTo(ctor.inst) # {}) <=> ~kw.no_save
           /\ ~kw.no_save => AttachedTo(ctor.inst) = {target}
           /\ ctor.kwargs.keys \cap ControlKeys = {}

----------------------------------------------------------------------------
\* Claims about db.mapper, checked under SpecMapper

\* C7: the extension list handed to orm.mapper is the caller's extensions in
\* their order followed by exactly one ManagerExtension created by this
\* call, and the other arguments are handed over unchanged.
C7_MapperAddsExtension ==
    lastMapper.op = "mapper" =>
        LET h == lastMapper.handedExtension
        IN /\ Len(h) = Len(lastMapper.supplied) + 1
           /\ SubSeq(h, 1, Len(h) - 1) = lastMapper.supplied
           /\ h[Len(h)].kind = "ManagerExtension"
           /\ h[Len(h)].id > lastMapper.created
           /\ \A k \in 1..(Len(h) - 1) :
                 h[k].kind = "ManagerExtension" => h[k].id <= lastMapper.created
           /\ lastMapper.arg.form = "single" => lastMapper.supplied = lastMapper.arg.ext
           /\ lastMapper.arg.form = "absent" => lastMapper.supplied = <<>>
           /\ lastMapper.handedArgs = lastMapper.args

\* C7 witness: the list the application keeps, holding two extensions of its
\* own, is passed to a second mapper call
C7_Witness ==
    /\ lastMapper.op = "mapper"
    /\ lastMapper.arg.form = "list"
    /\ Len(lastMapper.supplied) = 3
    /\ lastMapper.supplied[3].kind = "ManagerExtension"
    /\ Len(callerList) = 4

----------------------------------------------------------------------------
\* Claims about the export, checked under SpecExport

Rank(type) ==
    CASE type = "preamble" -> 1
      [] type = "entry" -> 2
      [] type = "open" -> 3
      [] type = "node" -> 4
      [] type = "close" -> 5
      [] type = "epilog" -> 6

\* positions of the chunks of one type
At(type) == {i \in 1..Len(out) : out[i].type = type}

Entries == At("entry")

Nodes == At("node")

\* C4: the chunks come in the order preamble, entries, dependency block,
\* epilogue; in a complete run there is exactly one preamble, first, and
\* exactly one epilogue, last; the block is there exactly when the table is
\* not empty, with one open and one close chunk around one chunk per
\* dependency node; no entry follows the opening of the block.
C4_ChunkOrder ==
    /\ \A i, j \in 1..Len(out) : i < j => Rank(out[i].type) <= Rank(out[j].type)
    /\ Cardinality(At("close")) <= Cardinality(At("open"))
    /\ Cardinality(At("open")) <= 1
    /\ pc = "done" =>
          /\ Len(out) >= 2
          /\ At("preamble") = {1}
          /\ At("epilog") = {Len(out)}
          /\ Cardinality(At("open")) = (IF DOMAIN dependencies # {} THEN 1 ELSE 0)
          /\ Cardinality(At("close")) = Cardinality(At("open"))
          /\ Cardinality(Nodes) = Cardinality(DOMAIN dependencies)
          /\ {out[i].dep : i \in Nodes} = DOMAIN dependencies
          /\ Nodes # {} => At("open") # {}

\* C4 witness: a complete run with two entries and a block of two nodes
C4_Witness ==
    /\ pc = "done"
    /\ Cardinality(Entries) = 2
    /\ Cardinality(Nodes) = 2
    /\ At("open") # {} /\ At("close") # {}

\* C5: a complete export has exactly one entry per post of the query, in the
\* query's order and the first post included, and exactly one dependency
\* node for every user that is the author of a post.
C5_OneEntryPerPost ==
    pc = "done" =>
        /\ Cardinality(Entries) = Len(dbPosts)
        /\ \A k \in 1..Len(dbPosts) :
              /\ Cardinality({i \in Entries : out[i].post = k}) = 1
              /\ Cardinality({i \in Nodes : out[i].user = dbPosts[k].author}) = 1
        /\ \A i, j \in Entries : i < j => out[i].post < out[j].post

\* C5 witness: a complete export of three posts, two by one author
C5_Witness ==
    /\ pc = "done"
    /\ Len(dbPosts) = 3
    /\ dbPosts[1].author = dbPosts[3].author
    /\ dbPosts[1].author # dbPosts[2].author
    /\ Cardinality(Entries) = 3

\* every reference of an emitted entry is the id of exactly one node of the
\* dependency block
ReferencesResolved ==
    \A i \in Entries :
        /\ Cardinality({n \in Nodes : out[n].dep = out[i].dep}) = 1
        /\ \A n \in Nodes : out[n].dep = out[i].dep =>
              /\ n > i
              /\ \E o \in At("open") : o < n
              /\ \E c \in At("close") : n < c

\* the reference of every emitted entry is the id of the node registered
\* for the post's author
ReferencesAuthorNode ==
    \A i \in Entries :
        LET a == dbPosts[out[i].post].author
        IN /\ a \in DOMAIN users
           /\ out[i].dep = users[a].dep
           /\ out[i].dep \in DOMAIN dependencies
           /\ dependencies[out[i].dep] = users[a]
           /\ users[a].user = a
           /\ \A b \in DOMAIN users : users[b].dep = out[i].dep => b = a

\* C8 (as claimed): whenever the generator has ended, every reference of an
\* emitted entry is resolved by exactly one node emitted after it.
C8_NoDanglingReference ==
    /\ ReferencesAuthorNode
    /\ pc \in {"done", "error"} => ReferencesResolved

\* C8 (amended): the references name the author's node, and in an export
\* that runs to completion each is resolved by exactly one node of the block.
C8_ResolvedWhenComplete ==
    /\ ReferencesAuthorNode
    /\ pc = "done" => ReferencesResolved

\* C8 witness: a complete export in which the users come in an order that
\* makes dependency ids differ from user ids
C8_Witness ==
    /\ pc = "done"
    /\ Cardinality(Entries) >= 2
    /\ \E i \in Entries : out[i].dep # Hex(out[i].user)
    /\ \E i, j \in Entries : out[i].dep # out[j].dep

\* the posts _dump_post cannot dump: no author, or an author that is not
\* among the registered users
Undumpable(k) == dbPosts[k].author = 0 \/ dbPosts[k].author \notin Range(dbUsers)

\* C9: when the dump of a post raises, the generator ends there: what was
\* yielded stays, and the output never holds an entry for that post or a
\* later one, a chunk of the dependency block or the epilogue.
C9_NoRecovery ==
    /\ \A k \in 1..Len(dbPosts) :
          Undumpable(k) =>
              /\ \A i \in Entries : out[i].post < k
              /\ At("open") \cup Nodes \cup At("close") \cup At("epilog") = {}
              /\ pc # "done"
    /\ (pc = "error" /\ postIter # dbPosts) =>
          LET k == Len(dbPosts) - Len(postIter)
          IN /\ Undumpable(k)
             /\ Len(out) = k
             /\ out[1].type = "preamble"
             /\ \A i \in 2..k : out[i].type = "entry" /\ out[i].post = i - 1

\* C9 witness: the second of three posts could not be dumped; the preamble
\* and the first entry were yielded, the third post never is
C9_Witness ==
    /\ pc = "error"
    /\ Len(dbPosts) = 3
    /\ Len(postIter) = 1
    /\ ~Undumpable(3)
    /\ Len(out) = 2
    /\ out[2].type = "entry"

----------------------------------------------------------------------------
\* Claims about the dependency table, checked under SpecDependencies

\* the value of a lowercase hexadecimal digit, -1 for any other character
DigitValue(d) ==
    IF \E v \in 0..15 : HexDigits[v + 1] = d
    THEN CHOOSE v \in 0..15 : HexDigits[v + 1] = d
    ELSE -1

\* the number a numeral stands for, read digit by digit
RECURSIVE NumeralValue(_)
NumeralValue(s) ==
    IF s = <<>> THEN 0
    ELSE 16 * NumeralValue(SubSeq(s, 1, Len(s) - 1)) + DigitValue(s[Len(s)])

\* a numeral as '%x' writes it: digits 0-9a-f, no leading zero
IsHexNumeral(s) ==
    /\ Len(s) >= 1
    /\ \A i \in 1..Len(s) : DigitValue(s[i]) >= 0
    /\ (Len(s) > 1 => s[1] # "0")

\* the keys are the hexadecimal numerals of 1..n for n calls, and every
\* node is stored under the id it carries
KeysAreNumerals ==
    /\ \A k \in DOMAIN dependencies : IsHexNumeral(k) /\ dependencies[k].dep = k
    /\ {NumeralValue(k) : k \in DOMAIN dependencies} = 1..depLog.calls
    /\ Cardinality(DOMAIN dependencies) = depLog.calls
    /\ depLog.calls > 0 =>
          /\ depLog.node.dep \in DOMAIN dependencies
          /\ NumeralValue(depLog.node.dep) = depLog.calls
          /\ dependencies[depLog.node.dep] = depLog.node

\* C11: after n calls of new_dependency the keys are the n distinct
\* lowercase hexadecimal numerals of 1..n, the node returned carries its
\* key, and a call leaves every earlier entry as it was.
C11_DependencyIds ==
    /\ [] KeysAreNumerals
    /\ [][\A k \in DOMAIN dependencies :
             k \in DOMAIN dependencies' /\ dependencies'[k] = dependencies[k]]_vars

\* C11 witness: sixteen calls, the last one returning the node with id "10"
C11_Witness ==
    /\ depLog.calls = 16
    /\ depLog.node.dep = <<"1", "0">>
    /\ <<"a">> \in DOMAIN dependencies
    /\ <<"f">> \in DOMAIN dependencies

----------------------------------------------------------------------------
\* Claims about a failed construction, checked under SpecSessions

\* C12 (as claimed): when the model's __init__ has failed, init_failed ends
\* without an error of its own and the instance is attached to no session,
\* whether init_instance had saved it or not.
C12_InitFailedDetaches ==
    lastSess.op = "init_failed" =>
        /\ ctor.result # "AttributeError"
        /\ AttachedTo(ctor.inst) = {}

----------------------------------------------------------------------------
\* Claims about the participants of an export, checked under SpecExport

\* C13 (as claimed): once the generator is past the participants' start-up,
\* every participant's before_dump has been called exactly once, and a
\* failure can only come from a post; process_user has been called once per
\* registered user and process_post once per entry produced, so that a
\* complete run calls them once per user and once per post.
C13_ParticipantProtocol ==
    \A k \in 1..Len(participants) :
        /\ pc \notin {"start", "setup"} => hooks[k].before_dump = 1
        /\ pc = "error" => /\ userIdx = Len(dbUsers)
                           /\ \E p \in 1..Len(dbPosts) : Undumpable(p)
        /\ hooks[k].process_user = userIdx
        /\ hooks[k].process_post = Cardinality(Entries)
        /\ pc = "done" => /\ hooks[k].process_user = Len(dbUsers)
                          /\ hooks[k].process_post = Len(dbPosts)

====
